---- MODULE Spec2Model ----
(***************************************************************************)
(* ComposableController                                                    *)
(* (packages/composable-controller/src/ComposableController.ts).           *)
(*                                                                         *)
(* The controller is built from a list of wallet components and a          *)
(* messenger.  Its constructor folds the components into a composite       *)
(* state and a composite metadata map, then subscribes to each component's *)
(* state changes, either on the messenger or through the component's own   *)
(* subscribe method.  Every state change received replaces the slice of    *)
(* the composite state named after the component and publishes             *)
(* "ComposableController:stateChange".                                     *)
(***************************************************************************)
EXTENDS Integers, Sequences, FiniteSets, TLC

VARIABLES
    controllers,        \* options.controllers: the list given to the constructor
    objects,            \* objects[i]: the first position of the list that holds
                        \* the same object as position i
    messenger,          \* options.messenger: "defined" or "undefined"
    result,             \* "new", "constructed", or the error the constructor threw
    superCalled,        \* TRUE once super({name, metadata, state, messenger}) has run
    state,              \* this.state: the composite state, name -> child state
    metadata,           \* this.metadata: the composite metadata, name -> descriptor
    busSubscriptions,   \* handlers registered with this.messagingSystem.subscribe
    childListeners,     \* handlers registered with component.subscribe
    published,          \* the stateChange events this controller has published
    notified,           \* the child notifications that have happened, in order
    subscribers,        \* the other handlers subscribed on the messenger to
                        \* "ComposableController:stateChange", in order
    delivered,          \* the events those handlers have received, in order
    outer,              \* a second ComposableController, composed of this one
    overflow,           \* TRUE once a dispatch has not come to an end
    unannounced         \* per child, the state it last set without notifying

vars == <<controllers, objects, messenger, result, superCalled, state, metadata,
          busSubscriptions, childListeners, published, notified,
          subscribers, delivered, outer, overflow, unannounced>>

-----------------------------------------------------------------------------
(* Bounds of the model. *)

MaxChildren == 2

MaxNotifications == 2

\* The handlers subscribed to the controller's own event.
MaxSubscribers == 2

\* The rounds of publication after which a dispatch is taken not to end.
MaxDepth == 3

-----------------------------------------------------------------------------
(* Values. *)

controllerName == "ComposableController"

Names == {"A", "B"}

\* The value of a property that the object does not have.
undefined == <<>>

\* State objects of child controllers: records over the fields x and y.
InitialStates == {[x |-> 1], [x |-> 2, y |-> 1]}

NewStates == {[x |-> 2, y |-> 1], [y |-> 2]}

\* The metadata object of a BaseController child has one descriptor for each
\* property of its state (StateMetadata<State>).
StateMetadataOf(st) ==
    [k \in DOMAIN st |-> [persist |-> (st[k] = 1), anonymous |-> (k = "y")]]

\* `${name}:stateChange`
StateChangeTopic(name) == name \o ":stateChange"

-----------------------------------------------------------------------------
(* Wallet components.  A component is described by the properties it has   *)
(* ('p' in component), the typeof of each of them, the class it is an      *)
(* instance of, and the values of the properties the constructor reads.    *)

BaseControllerV1Props ==
    {"name", "config", "defaultConfig", "state", "defaultState", "disabled",
     "subscribe"}

BaseControllerProps == {"name", "state", "metadata", "messagingSystem"}

\* typeof of a property that holds a value of its declared type.
DeclaredType(p) ==
    CASE p = "name" -> "string"
      [] p = "disabled" -> "boolean"
      [] p = "subscribe" -> "function"
      [] OTHER -> "object"

Component(n, props, class, st) ==
    [name |-> n, props |-> props, instanceOf |-> class,
     typeOf |-> [p \in props |-> DeclaredType(p)],
     state |-> IF "state" \in props THEN st ELSE undefined,
     metadata |-> IF "metadata" \in props THEN StateMetadataOf(st) ELSE undefined]

Components ==
    UNION { \* controllers extending BaseController
            { Component(n, BaseControllerProps, "BaseController", st) :
                st \in InitialStates }
            \cup
            \* controllers extending BaseControllerV1
            { Component(n, BaseControllerV1Props, "BaseControllerV1", st) :
                st \in InitialStates }
            \cup
            { \* a controller extending BaseControllerV1 with a messagingSystem
              Component(n, BaseControllerV1Props \cup {"messagingSystem"},
                        "BaseControllerV1", [x |-> 1]),
              \* a MessengerConsumerInstance that is not a controller
              Component(n, {"name", "messagingSystem"}, "Object", undefined),
              \* a MessengerConsumerInstance that also carries a state property
              Component(n, {"name", "messagingSystem", "state"}, "Object",
                        [x |-> 1]),
              \* an object with a name only
              Component(n, {"name"}, "Object", undefined),
              \* an object shaped like a BaseController that does not extend it
              Component(n, {"name", "state", "metadata"}, "Object",
                        [x |-> 2, y |-> 1]) }
          : n \in Names }
    \cup
    { \* a controller extending BaseController whose metadata is undefined
      [Component("A", BaseControllerProps, "BaseController", [x |-> 1])
        EXCEPT !.typeOf["metadata"] = "undefined", !.metadata = undefined],
      \* a controller extending BaseControllerV1 whose disabled is a string
      [Component("B", BaseControllerV1Props, "BaseControllerV1", [x |-> 1])
        EXCEPT !.typeOf["disabled"] = "string"] }

ControllerLists == UNION { [1..k -> Components] : k \in 0..MaxChildren }

\* The ways in which the elements of the list cs can be the same object: the
\* same object has the same description at every position it is given at.
Identities(cs) ==
    { f \in [1..Len(cs) -> 1..Len(cs)] :
        \A i \in 1..Len(cs) :
            /\ f[i] <= i
            /\ f[f[i]] = f[i]
            /\ cs[f[i]] = cs[i] }

-----------------------------------------------------------------------------
(* Type guards. *)

isMessengerConsumer(component) ==
    "name" \in component.props /\ "messagingSystem" \in component.props

\* 'p' in component && typeof component.p === t
InTyped(component, p, t) ==
    p \in component.props /\ component.typeOf[p] = t

isBaseControllerV1(controller) ==
    /\ InTyped(controller, "name", "string")
    /\ InTyped(controller, "config", "object")
    /\ InTyped(controller, "defaultConfig", "object")
    /\ InTyped(controller, "state", "object")
    /\ InTyped(controller, "defaultState", "object")
    /\ InTyped(controller, "disabled", "boolean")
    /\ InTyped(controller, "subscribe", "function")
    /\ controller.instanceOf = "BaseControllerV1"

isBaseController(controller) ==
    /\ InTyped(controller, "name", "string")
    /\ InTyped(controller, "state", "object")
    /\ InTyped(controller, "metadata", "object")
    /\ controller.instanceOf = "BaseController"

-----------------------------------------------------------------------------
(* Constructor. *)

\* { persist: true, anonymous: true }
DefaultMetadata == [persist |-> TRUE, anonymous |-> TRUE]

\* A metadata reduce that gives every child the default descriptor.
MetadataStepDefaultOnly(md, controller) ==
    (controller.name :> DefaultMetadata) @@ md

\* One step of the metadata reduce: { ...metadata, [controller.name]: ... }
MetadataStep(md, controller) ==
    (controller.name :>
        (IF isBaseController(controller)
            THEN controller.metadata
            ELSE DefaultMetadata)) @@ md

\* A state reduce that does not test 'state' in controller.
StateStepUnchecked(st, controller) ==
    (controller.name :> controller.state) @@ st

\* A state reduce that spreads the accumulator last: the first child of a
\* name wins.
StateStepFirstWins(st, controller) ==
    IF "state" \in controller.props
        THEN st @@ (controller.name :> controller.state)
        ELSE st

\* One step of the state reduce.
StateStep(st, controller) ==
    IF "state" \in controller.props
        THEN (controller.name :> controller.state) @@ st
        ELSE st

RECURSIVE MetadataFrom(_, _, _)
\* The metadata reduce from element i on, with the accumulator md.
MetadataFrom(cs, i, md) ==
    IF i > Len(cs) THEN md
    ELSE MetadataFrom(cs, i + 1, MetadataStep(md, cs[i]))

RECURSIVE StateFrom(_, _, _)
\* The state reduce from element i on, with the accumulator st.
StateFrom(cs, i, st) ==
    IF i > Len(cs) THEN st
    ELSE StateFrom(cs, i + 1, StateStep(st, cs[i]))

\* controllers.reduce(..., {})
MetadataReduce(cs) == MetadataFrom(cs, 1, <<>>)

StateReduce(cs) == StateFrom(cs, 1, <<>>)

\* The registrations made so far, and whether the loop has thrown.
NoSubscriptions == [bus |-> <<>>, listeners |-> <<>>, threw |-> FALSE]

\* A registration on the messenger that is skipped when the topic already
\* has a handler.
OnMessengerOncePerTopic(subs, component, i) ==
    IF \E k \in 1..Len(subs.bus) :
            subs.bus[k].topic = StateChangeTopic(component.name)
    THEN subs
    ELSE [subs EXCEPT !.bus =
            Append(@, [topic |-> StateChangeTopic(component.name),
                       name |-> component.name, child |-> i])]

\* The registration on the messenger and the one on the component.
OnMessenger(subs, component, i) ==
    [subs EXCEPT !.bus =
        Append(@, [topic |-> StateChangeTopic(component.name),
                   name |-> component.name, child |-> i])]

OnComponent(subs, component, i) ==
    [subs EXCEPT !.listeners =
        Append(@, [name |-> component.name, child |-> i])]

\* An #updateChildController without its last branch: nothing is thrown.
updateChildControllerNoThrow(subs, component, i) ==
    IF \/ isBaseController(component)
       \/ (isBaseControllerV1(component) /\ isMessengerConsumer(component))
    THEN OnMessenger(subs, component, i)
    ELSE IF isBaseControllerV1(component)
    THEN OnComponent(subs, component, i)
    ELSE subs

\* An #updateChildController that throws for every component that is not a
\* controller.
updateChildControllerStrict(subs, component, i) ==
    IF \/ isBaseController(component)
       \/ (isBaseControllerV1(component) /\ isMessengerConsumer(component))
    THEN OnMessenger(subs, component, i)
    ELSE IF isBaseControllerV1(component)
    THEN OnComponent(subs, component, i)
    ELSE [subs EXCEPT !.threw = TRUE]

\* An #updateChildController that tests isBaseControllerV1 first.
updateChildControllerLegacyFirst(subs, component, i) ==
    IF isBaseControllerV1(component)
    THEN OnComponent(subs, component, i)
    ELSE IF isBaseController(component)
    THEN OnMessenger(subs, component, i)
    ELSE IF ~isMessengerConsumer(component)
    THEN [subs EXCEPT !.threw = TRUE]
    ELSE subs

\* An #updateChildController whose second test is not an else branch.
updateChildControllerNoElse(subs, component, i) ==
    LET first == IF \/ isBaseController(component)
                    \/ (isBaseControllerV1(component)
                            /\ isMessengerConsumer(component))
                 THEN OnMessenger(subs, component, i)
                 ELSE subs
    IN IF isBaseControllerV1(component)
       THEN OnComponent(first, component, i)
       ELSE IF ~isBaseController(component) /\ ~isMessengerConsumer(component)
       THEN [first EXCEPT !.threw = TRUE]
       ELSE first

\* #updateChildController(component), for the component at position i.
updateChildController(subs, component, i) ==
    IF \/ isBaseController(component)
       \/ (isBaseControllerV1(component) /\ isMessengerConsumer(component))
    THEN OnMessenger(subs, component, i)
    ELSE IF isBaseControllerV1(component)
    THEN OnComponent(subs, component, i)
    ELSE IF ~isMessengerConsumer(component)
    THEN [subs EXCEPT !.threw = TRUE]
    ELSE subs

RECURSIVE ForEachRollback(_, _, _)
\* A forEach that drops the registrations already made when a component is
\* rejected.
ForEachRollback(cs, i, subs) ==
    IF subs.threw THEN [NoSubscriptions EXCEPT !.threw = TRUE]
    ELSE IF i > Len(cs) THEN subs
    ELSE ForEachRollback(cs, i + 1, updateChildController(subs, cs[i], i))

RECURSIVE ForEach(_, _, _)
\* controllers.forEach((controller) => this.#updateChildController(controller)):
\* an exception ends the loop.
ForEach(cs, i, subs) ==
    IF i > Len(cs) \/ subs.threw
        THEN subs
        ELSE ForEach(cs, i + 1, updateChildController(subs, cs[i], i))

\* What the caller of `new ComposableController(...)` is left with.
Thrown(error) ==
    [result |-> error, superCalled |-> FALSE, state |-> <<>>,
     metadata |-> <<>>, bus |-> <<>>, listeners |-> <<>>]

\* super({ name, metadata, state, messenger }) followed by the forEach.
Constructed(cs) ==
    LET subs == ForEach(cs, 1, NoSubscriptions) IN
    [result |-> IF subs.threw THEN "ValidationError" ELSE "constructed",
     superCalled |-> TRUE,
     state |-> StateReduce(cs),
     metadata |-> MetadataReduce(cs),
     bus |-> subs.bus,
     listeners |-> subs.listeners]

\* A constructor that tests the messenger after the rest of its work.
ConstructorLateCheck(cs, m) ==
    IF m = "undefined"
        THEN [Constructed(cs) EXCEPT !.result = "ConfigurationError"]
        ELSE Constructed(cs)

\* constructor({ controllers, messenger })
Constructor(cs, m) ==
    IF m = "undefined" THEN Thrown("ConfigurationError") ELSE Constructed(cs)

Construct ==
    /\ result = "new"
    /\ LET this == Constructor(controllers, messenger) IN
        /\ result' = this.result
        /\ superCalled' = this.superCalled
        /\ state' = this.state
        /\ metadata' = this.metadata
        /\ busSubscriptions' = this.bus
        /\ childListeners' = this.listeners
    /\ UNCHANGED <<controllers, objects, messenger, published, notified,
                   subscribers, delivered, outer, overflow, unannounced>>

-----------------------------------------------------------------------------
(* State changes of the children. *)

\* A deep merge of childState into the slice instead of its replacement.
AssignSliceMerged(st, name, childState) ==
    (name :> (IF name \in DOMAIN st THEN childState @@ st[name] ELSE childState))
        @@ st

\* A recipe that assigns the slice under the topic instead of the name.
AssignSliceTopicKey(st, name, childState) ==
    (StateChangeTopic(name) :> childState) @@ st

\* The recipe given to this.update: Object.assign(state, { [name]: childState })
AssignSlice(st, name, childState) == (name :> childState) @@ st

\* The handlers subscribed to "ComposableController:stateChange" besides
\* those of the controllers: a reader looks at this.state when it is called;
\* a publisher does so too and, when the event it is given stems from a
\* notification that no handler caused, publishes `${name}:stateChange`
\* itself; a notifier makes, in the same case, the BaseControllerV1 child at
\* a position of the list call the listeners given to its subscribe method;
\* a composer is the handler a second ComposableController registered for
\* this one.
Reader == [kind |-> "reader"]

Publisher(n, st) == [kind |-> "publisher", name |-> n, state |-> st]

Notifier(i, st) == [kind |-> "notifier", child |-> i, state |-> st]

Composer(n) == [kind |-> "composer", name |-> n]

\* BaseController.update: the next state becomes this.state and is published
\* on `${this.name}:stateChange`.  The messenger hands publications to their
\* subscribers in the order in which they were published: a publication
\* made while another is being handed out waits for its turn.
update(c, nextState, cause, depth) ==
    [c EXCEPT !.state = nextState,
              !.published =
                    Append(@, [topic |-> StateChangeTopic(controllerName),
                               state |-> nextState, cause |-> cause]),
              !.queue =
                    Append(@, [kind |-> "aggregate",
                               event |-> Len(c.published) + 1,
                               payload |-> nextState, cause |-> cause,
                               depth |-> depth])]

\* A listener that does nothing when the slice already equals childState.
childStateChangeListenerCoalescing(c, name, childState, cause, depth) ==
    IF name \in DOMAIN c.state /\ c.state[name] = childState
        THEN c
        ELSE update(c, AssignSlice(c.state, name, childState), cause, depth)

\* A listener whose recipe returns the slice alone as the next state.
childStateChangeListenerSliceOnly(c, name, childState, cause, depth) ==
    update(c, (name :> childState), cause, depth)

\* A listener that publishes through update first and assigns the slice to
\* the state afterwards.
childStateChangeListenerPublishFirst(c, name, childState, cause, depth) ==
    LET c1 == update(c, c.state, cause, depth)
    IN [c1 EXCEPT !.state = AssignSlice(c1.state, name, childState)]

\* The listener registered by #updateChildController for the child `name`.
childStateChangeListener(c, name, childState, cause, depth) ==
    update(c, AssignSlice(c.state, name, childState), cause, depth)

RECURSIVE Dispatch(_, _, _, _, _, _)
\* The handlers of hs are called in order of registration with childState.
Dispatch(hs, i, childState, cause, depth, c) ==
    IF i > Len(hs) THEN c
    ELSE Dispatch(hs, i + 1, childState, cause, depth,
                  childStateChangeListener(c, hs[i].name, childState, cause,
                                           depth))

SubscribersOf(topic) ==
    SelectSeq(busSubscriptions, LAMBDA s : s.topic = topic)

\* The listeners given to the subscribe method of the object at position i.
ListenersOf(i) ==
    SelectSeq(childListeners, LAMBDA s : objects[s.child] = objects[i])

\* `${name}:stateChange` is published on the messenger with the payload
\* childState, for the handlers hs.
PublishStateChange(hs, name, childState, depth, c) ==
    [c EXCEPT !.queue =
        Append(@, [kind |-> "child", hs |-> hs, name |-> name,
                   state |-> childState, depth |-> depth])]

\* The messenger hands the publication e of a child to its handlers.
DeliverStateChange(e, c) ==
    Dispatch(e.hs, 1, e.state, Len(c.notified) + 1, e.depth,
             [c EXCEPT !.notified =
                Append(@, [via |-> "messenger", name |-> e.name, child |-> 0,
                           state |-> e.state, handlers |-> Len(e.hs)])])

\* The BaseControllerV1 child at position i calls the listeners that were
\* given to its subscribe method, itself and at once; the notification is
\* recorded under the first position of the object.
NotifyListeners(i, childState, depth, c) ==
    Dispatch(ListenersOf(i), 1, childState, Len(c.notified) + 1, depth,
             [c EXCEPT !.notified =
                Append(@, [via |-> "subscribe", name |-> controllers[i].name,
                           child |-> objects[i], state |-> childState,
                           handlers |-> Len(ListenersOf(i))])])

\* The listener of the second ComposableController for its child `name`, with
\* the update it calls.
OuterListener(c, name, childState, cause, depth) ==
    LET next == AssignSlice(c.outer.state, name, childState) IN
    [c EXCEPT !.outer.state = next,
              !.outer.published =
                    Append(@, [topic |-> StateChangeTopic(controllerName),
                               state |-> next, cause |-> cause]),
              !.queue =
                    Append(@, [kind |-> "aggregate", event |-> 0,
                               payload |-> next, cause |-> cause,
                               depth |-> depth + 1])]

RECURSIVE Announce(_, _, _)
\* The messenger hands the event e, published on
\* "ComposableController:stateChange", to the subscribers from the j-th on.
\* A dispatch that is still publishing after MaxDepth rounds does not end.
Announce(j, e, c) ==
    IF c.overflow THEN c
    ELSE IF e.depth > MaxDepth THEN [c EXCEPT !.overflow = TRUE]
    ELSE IF j > Len(subscribers) THEN c
    ELSE LET s == subscribers[j]
             seen == [c EXCEPT !.delivered =
                        Append(@, [subscriber |-> j, event |-> e.event,
                                   cause |-> e.cause, carried |-> e.payload,
                                   latest |-> Len(c.published),
                                   depth |-> e.depth,
                                   observed |-> c.state])]
             after ==
                CASE s.kind = "reader" -> seen
                  [] s.kind = "publisher" ->
                        IF e.depth = 1
                        THEN PublishStateChange(
                                SubscribersOf(StateChangeTopic(s.name)),
                                s.name, s.state, e.depth + 1, seen)
                        ELSE seen
                  [] s.kind = "notifier" ->
                        IF e.depth = 1
                        THEN NotifyListeners(s.child, s.state, e.depth + 1,
                                             seen)
                        ELSE seen
                  [] s.kind = "composer" ->
                        OuterListener(c, s.name, e.payload, e.cause, e.depth)
         IN Announce(j + 1, e, after)

RECURSIVE Deliver(_)
\* The messenger hands out the publications that wait, oldest first, until
\* none is left.
Deliver(c) ==
    IF c.overflow \/ c.queue = <<>> THEN [c EXCEPT !.queue = <<>>]
    ELSE LET e == Head(c.queue)
             rest == [c EXCEPT !.queue = Tail(@)]
         IN Deliver(IF e.kind = "child"
                        THEN DeliverStateChange(e, rest)
                        ELSE Announce(1, e, rest))

Current ==
    [state |-> state, published |-> published, notified |-> notified,
     delivered |-> delivered, outer |-> outer, overflow |-> overflow,
     queue |-> <<>>]

\* The variables after a dispatch that ended in c.
Becomes(c) ==
    /\ state' = c.state
    /\ published' = c.published
    /\ notified' = c.notified
    /\ delivered' = c.delivered
    /\ outer' = c.outer
    /\ overflow' = c.overflow
    /\ UNCHANGED <<controllers, objects, messenger, result, superCalled,
                   metadata,
                   busSubscriptions, childListeners, subscribers, unannounced>>

\* A publication that reaches every handler on the messenger, whatever the
\* topic it subscribed to.
BusStateChangeUnfiltered(name, childState) ==
    /\ result # "new"
    /\ Len(notified) < MaxNotifications
    /\ Becomes(Deliver(PublishStateChange(busSubscriptions, name, childState,
                                          1, Current)))

\* `${name}:stateChange` is published on the messenger with the payload
\* childState: every handler subscribed to the topic runs.
BusStateChange(name, childState) ==
    /\ result # "new"
    /\ Len(notified) < MaxNotifications
    /\ Becomes(Deliver(PublishStateChange(
                        SubscribersOf(StateChangeTopic(name)), name,
                        childState, 1, Current)))

\* The BaseControllerV1 child at position i notifies the listeners that were
\* given to its subscribe method of its state childState.
ListenerStateChange(i, childState) ==
    /\ result # "new"
    /\ Len(notified) < MaxNotifications
    /\ i \in 1..Len(controllers)
    /\ isBaseControllerV1(controllers[i])
    /\ Becomes(Deliver(NotifyListeners(i, childState, 1, Current)))

\* The child at position i replaces its state and notifies nobody (a
\* disabled BaseControllerV1, or a state set outside update).
ChildChangesQuietly(i, childState) ==
    /\ result # "new"
    /\ i \in 1..Len(controllers)
    /\ "state" \in controllers[i].props
    /\ unannounced[i] # childState
    /\ unannounced' =
            [j \in 1..Len(controllers) |->
                IF objects[j] = objects[i] THEN childState ELSE unannounced[j]]
    /\ UNCHANGED <<controllers, objects, messenger, result, superCalled,
                   state,
                   metadata, busSubscriptions, childListeners, published,
                   notified, subscribers, delivered, outer, overflow>>

-----------------------------------------------------------------------------
(* A ComposableController as a child of a second one, on the same          *)
(* messenger.                                                              *)

NoOuter == [result |-> "new", state |-> <<>>, metadata |-> <<>>,
            published |-> <<>>, since |-> 0]

\* This controller as a component: it extends BaseController, and its name,
\* state and metadata are those given to super.
ThisAsComponent ==
    [name |-> controllerName, props |-> BaseControllerProps,
     typeOf |-> [p \in BaseControllerProps |-> DeclaredType(p)],
     instanceOf |-> "BaseController", state |-> state, metadata |-> metadata]

\* new ComposableController({ controllers: [this], messenger }).  The super
\* call of the second instance registers under the name of the first; the
\* base class and the messenger either accept that or throw ("A handler for
\* ComposableController:getState has already been registered") before
\* anything is subscribed.
ConstructOuter ==
    /\ result = "constructed"
    /\ outer.result = "new"
    /\ \E accepted \in BOOLEAN :
       LET that == IF accepted
                   THEN Constructor(<<ThisAsComponent>>, messenger)
                   ELSE Thrown("Error")
       IN
        /\ outer' = [result |-> that.result, state |-> that.state,
                     metadata |-> that.metadata, published |-> <<>>,
                     since |-> Len(published)]
        /\ subscribers' = subscribers \o
                [k \in 1..Len(that.bus) |-> Composer(that.bus[k].name)]
    /\ UNCHANGED <<controllers, objects, messenger, result, superCalled,
                   state,
                   metadata, busSubscriptions, childListeners, published,
                   notified, delivered, overflow, unannounced>>

-----------------------------------------------------------------------------

\* Before the constructor is called.
NotConstructed ==
    /\ result = "new"
    /\ superCalled = FALSE
    /\ state = <<>>
    /\ metadata = <<>>
    /\ busSubscriptions = <<>>
    /\ childListeners = <<>>
    /\ published = <<>>
    /\ notified = <<>>
    /\ delivered = <<>>
    /\ outer = NoOuter
    /\ overflow = FALSE
    /\ unannounced = [i \in 1..Len(controllers) |-> undefined]

Init ==
    /\ controllers \in ControllerLists
    /\ objects \in Identities(controllers)
    /\ messenger \in {"defined", "undefined"}
    /\ subscribers = <<>>
    /\ NotConstructed

Next ==
    \/ Construct
    \/ \E name \in Names, childState \in NewStates :
            BusStateChange(name, childState)
    \/ \E i \in 1..MaxChildren, childState \in NewStates :
            ListenerStateChange(i, childState)

Spec == Init /\ [][Next]_vars

-----------------------------------------------------------------------------
(* The controller of a BaseController child A and a BaseControllerV1 child *)
(* B, with other handlers subscribed to its event, and with children that  *)
(* change their state without notifying.                                   *)

ScenarioLists ==
    { <<Component("A", BaseControllerProps, "BaseController", a),
        Component("B", BaseControllerV1Props, "BaseControllerV1", b)>> :
        a \in InitialStates, b \in InitialStates }

\* The notifier makes the BaseControllerV1 child B, the second of the list,
\* call its listeners.
SubscriberKinds ==
    {Reader, Notifier(2, [y |-> 2]), Publisher("A", [x |-> 2, y |-> 1])}
        \cup {Publisher(n, [y |-> 2]) : n \in Names}

InitSubscribers ==
    /\ controllers \in ScenarioLists
    /\ objects \in Identities(controllers)
    /\ messenger = "defined"
    /\ subscribers \in
        UNION { [1..k -> SubscriberKinds] : k \in 1..MaxSubscribers }
    /\ NotConstructed

NextSubscribers ==
    \/ Next
    \/ \E i \in 1..MaxChildren, childState \in NewStates :
            ChildChangesQuietly(i, childState)

SpecSubscribers == InitSubscribers /\ [][NextSubscribers]_vars

(* The same controller, given as the only child of a second one.           *)

InitNested ==
    /\ controllers \in ScenarioLists
    /\ objects \in Identities(controllers)
    /\ messenger = "defined"
    /\ subscribers = <<>>
    /\ NotConstructed

NextNested ==
    \/ Next
    \/ ConstructOuter

SpecNested == InitNested /\ [][NextNested]_vars

-----------------------------------------------------------------------------
(* Vocabulary of the properties. *)

ModernChild(c) == isBaseController(c)

LegacyChild(c) == isBaseControllerV1(c)

Positions == 1..Len(controllers)

\* Every child of the list is a ModernChild or a LegacyChild.
RecognizedList == \A i \in Positions :
                    ModernChild(controllers[i]) \/ LegacyChild(controllers[i])

UniqueNames == \A i, j \in Positions :
                    controllers[i].name = controllers[j].name => i = j

\* The child at position i is the last one of its name.
LastOfName(i) == \A j \in Positions :
                    controllers[j].name = controllers[i].name => j <= i

\* The notifications that reached at least one handler of the controller.
Received == SelectSeq([k \in 1..Len(notified) |-> k],
                      LAMBDA k : notified[k].handlers >= 1)

Causes == [k \in 1..Len(published) |-> published[k].cause]

-----------------------------------------------------------------------------
(* C1: when the handler registered for the name n receives the state v,   *)
(* afterwards this.state[n] = v exactly, whatever the slice held before,   *)
(* and every other slice is as it was.                                     *)
C1_SingleSliceReplace ==
    [][ (Len(notified') = Len(notified) + 1
            /\ notified'[Len(notified')].handlers >= 1)
        => LET n == notified'[Len(notified')].name
               v == notified'[Len(notified')].state
           IN /\ n \in DOMAIN state'
              /\ state'[n] = v
              /\ DOMAIN state' \ {n} = DOMAIN state \ {n}
              /\ \A m \in DOMAIN state \ {n} : state'[m] = state[m] ]_vars

\* A slice that had the field x has been replaced by {y: 2}, next to
\* another slice.
C1_Witness ==
    /\ Len(notified) = 1
    /\ notified[1].handlers >= 1
    /\ notified[1].state = [y |-> 2]
    /\ state[notified[1].name] = [y |-> 2]
    /\ Cardinality(DOMAIN state) = 2

(* C2, as stated: for any list accepted by the constructor, the k-th       *)
(* stateChange event published by the controller is caused by the k-th     *)
(* child notification it received, and there are as many of the one as of  *)
(* the other.                                                              *)
C2_Original ==
    result = "constructed" => Causes = Received

(* C2, amended: the same for lists whose names are unique.                 *)
C2_OneEventPerNotification ==
    (result = "constructed" /\ UniqueNames) => Causes = Received

\* Two notifications were received, the second with the state the slice
\* already had, and two events were published.
C2_Witness ==
    /\ result = "constructed"
    /\ UniqueNames
    /\ Len(Received) = 2
    /\ notified[1].name = notified[2].name
    /\ notified[1].state = notified[2].state
    /\ Len(published) = 2

(* C3: for a list with unique names that the constructor accepts, right    *)
(* after construction the keys of this.state are the names of the          *)
(* children that have a `state` property, and each entry is that child's   *)
(* state.                                                                  *)
C3_InitialState ==
    (result = "constructed" /\ UniqueNames /\ notified = <<>>)
    => /\ DOMAIN state =
            {controllers[i].name : i \in {j \in Positions :
                                            "state" \in controllers[j].props}}
       /\ \A i \in Positions :
            "state" \in controllers[i].props
                => state[controllers[i].name] = controllers[i].state

\* Two children of different states, and a list with a child without state.
C3_Witness ==
    /\ result = "constructed" /\ UniqueNames /\ notified = <<>>
    /\ Len(controllers) = 2
    /\ "state" \in controllers[1].props
    /\ "state" \notin controllers[2].props
    /\ state = (controllers[1].name :> [x |-> 2, y |-> 1])

\* The entries of this.metadata, given the descriptor of the children that
\* are not BaseController instances.
MetadataEntries(descriptor) ==
    /\ DOMAIN metadata = {controllers[i].name : i \in Positions}
    /\ \A i \in Positions :
        LastOfName(i) =>
            metadata[controllers[i].name] =
                IF ModernChild(controllers[i])
                    THEN controllers[i].metadata
                    ELSE descriptor

(* C4, as stated: the keys of the composite metadata are the names of all  *)
(* children; the entry of a ModernChild is its own metadata and the entry  *)
(* of a LegacyChild is {persisted: true, anonymous: true}.                 *)
C4_Original ==
    (result = "constructed" /\ RecognizedList)
        => MetadataEntries([persisted |-> TRUE, anonymous |-> TRUE])

(* C4, amended: the same with the descriptor {persist: true, anonymous:    *)
(* true}.                                                                  *)
C4_Metadata ==
    result = "constructed"
        => MetadataEntries([persist |-> TRUE, anonymous |-> TRUE])

\* A BaseController child and a BaseControllerV1 child side by side.
C4_Witness ==
    /\ result = "constructed"
    /\ Len(controllers) = 2
    /\ ModernChild(controllers[1])
    /\ LegacyChild(controllers[2])
    /\ controllers[1].name # controllers[2].name
    /\ metadata[controllers[1].name] = controllers[1].metadata
    /\ metadata[controllers[2].name] = [persist |-> TRUE, anonymous |-> TRUE]

(* C5: without a messenger the constructor throws before anything else:    *)
(* super is not called, nothing is subscribed on the messenger or on a     *)
(* child, no state or metadata is built, and no notification is ever       *)
(* handled, whatever the list of children.                                 *)
C5_NoMessenger ==
    (messenger = "undefined" /\ result # "new")
    => /\ result = "ConfigurationError"
       /\ ~superCalled
       /\ busSubscriptions = <<>>
       /\ childListeners = <<>>
       /\ state = <<>>
       /\ metadata = <<>>
       /\ published = <<>>

\* The list held a valid child and an invalid one, and the children have
\* notified since.
C5_Witness ==
    /\ messenger = "undefined"
    /\ result = "ConfigurationError"
    /\ Len(controllers) = 2
    /\ ModernChild(controllers[1])
    /\ ~isMessengerConsumer(controllers[2]) /\ ~LegacyChild(controllers[2])
    /\ Len(notified) = 2

-----------------------------------------------------------------------------
(* Vocabulary of the properties on the registrations. *)

\* A component with a name and a messaging handle and nothing else.
MessengerOnly(c) == c.props = {"name", "messagingSystem"}

Recognized(c) == ModernChild(c) \/ LegacyChild(c)

\* A component that is no controller and has no messaging handle.
Unrecognized(c) == ~Recognized(c) /\ ~isMessengerConsumer(c)

BusHandlersOf(i) == SelectSeq(busSubscriptions, LAMBDA s : s.child = i)

\* The listeners given to subscribe when the constructor came to position i.
ListenersAt(i) == SelectSeq(childListeners, LAMBDA s : s.child = i)

\* The positions of the children a handler is registered for.
HandlerChildren ==
    {busSubscriptions[k].child : k \in 1..Len(busSubscriptions)}
        \cup {childListeners[k].child : k \in 1..Len(childListeners)}

\* The events published because of the k-th notification.
EventsOf(k) == {p \in 1..Len(published) : published[p].cause = k}

(* C6, as stated: a list with one child that is neither a ModernChild nor  *)
(* a LegacyChild, all others being one or the other, is rejected with the  *)
(* validation error, wherever the child is.                                *)
C6_Original ==
    (messenger = "defined" /\ result # "new")
    => \A i \in Positions :
        (/\ ~Recognized(controllers[i])
         /\ \A j \in Positions \ {i} : Recognized(controllers[j]))
            => result = "ValidationError"

(* C6, amended: the same for a child that is neither a ModernChild nor a   *)
(* LegacyChild and has no messaging handle.                                *)
C6_InvalidChildRejected ==
    (messenger = "defined" /\ result # "new")
    => \A i \in Positions :
        (/\ Unrecognized(controllers[i])
         /\ \A j \in Positions \ {i} : Recognized(controllers[j]))
            => result = "ValidationError"

\* The rejected child came first, before a valid one.
C6_Witness ==
    /\ result = "ValidationError"
    /\ Len(controllers) = 2
    /\ Unrecognized(controllers[1])
    /\ Recognized(controllers[2])

(* C7, as stated: a construction whose list contains a component with     *)
(* only a name and a messaging handle does not succeed.                    *)
C7_Original ==
    (result # "new" /\ \E i \in Positions : MessengerOnly(controllers[i]))
        => result # "constructed"

(* C7, amended: a component with only a name and a messaging handle is     *)
(* accepted.  A list made of such components, ModernChildren and           *)
(* LegacyChildren is constructed without error, and no handler is          *)
(* registered for the component.                                           *)
C7_MessengerConsumerAccepted ==
    (/\ messenger = "defined" /\ result # "new"
     /\ \E i \in Positions : MessengerOnly(controllers[i])
     /\ \A i \in Positions :
            Recognized(controllers[i]) \/ MessengerOnly(controllers[i]))
    => /\ result = "constructed"
       /\ \A i \in Positions :
            MessengerOnly(controllers[i]) => i \notin HandlerChildren

\* A messenger consumer before a controller: both were processed.
C7_Witness ==
    /\ result = "constructed"
    /\ Len(controllers) = 2
    /\ MessengerOnly(controllers[1])
    /\ ModernChild(controllers[2])
    /\ HandlerChildren = {2}

(* C8, as stated: when the first child that is neither a ModernChild nor   *)
(* a LegacyChild is at position i, the constructor throws the validation   *)
(* error and the children with a handler are exactly those before i.       *)
C8_Original ==
    (messenger = "defined" /\ result # "new")
    => \A i \in Positions :
        (/\ ~Recognized(controllers[i])
         /\ \A j \in 1..(i - 1) : Recognized(controllers[j]))
            => /\ result = "ValidationError"
               /\ HandlerChildren = 1..(i - 1)

(* C8, amended: when the first child that is neither a ModernChild nor a   *)
(* LegacyChild and has no messaging handle is at position i, the           *)
(* constructor throws the validation error; the children with a handler    *)
(* are exactly the ModernChildren and LegacyChildren before i, and their   *)
(* handlers go on publishing an event for every notification they get.     *)
C8_NoRollback ==
    (messenger = "defined" /\ result # "new")
    => \A i \in Positions :
        (/\ Unrecognized(controllers[i])
         /\ \A j \in 1..(i - 1) : ~Unrecognized(controllers[j]))
            => /\ result = "ValidationError"
               /\ HandlerChildren =
                    {j \in 1..(i - 1) : Recognized(controllers[j])}
               /\ \A k \in 1..Len(notified) :
                    /\ notified[k].handlers =
                        IF notified[k].via = "messenger"
                        THEN Cardinality({j \in 1..(i - 1) :
                                /\ controllers[j].name = notified[k].name
                                /\ \/ ModernChild(controllers[j])
                                   \/ (LegacyChild(controllers[j])
                                       /\ isMessengerConsumer(controllers[j]))})
                        ELSE Cardinality({j \in 1..(i - 1) :
                                /\ objects[j] = notified[k].child
                                /\ LegacyChild(controllers[j])
                                /\ ~isMessengerConsumer(controllers[j])})
                    /\ Cardinality(EventsOf(k)) = notified[k].handlers

\* The constructor threw at the second child; the first has notified since
\* and the slice and the event followed.
C8_Witness ==
    /\ result = "ValidationError"
    /\ Len(controllers) = 2
    /\ ModernChild(controllers[1])
    /\ Unrecognized(controllers[2])
    /\ HandlerChildren = {1}
    /\ Len(notified) = 1
    /\ Len(published) = 1
    /\ state[controllers[1].name] = [y |-> 2]

(* C9: after a successful construction, a ModernChild, or a LegacyChild    *)
(* with a messaging handle, has one subscription on the messenger, to      *)
(* "<name>:stateChange", and its subscribe method was not called; a        *)
(* LegacyChild without a messaging handle has had subscribe called once    *)
(* and has no subscription on the messenger.  Registrations are made in    *)
(* list order.                                                             *)
C9_Routing ==
    result = "constructed"
    => /\ \A i \in Positions :
            LET c == controllers[i] IN
            /\ (ModernChild(c) \/ (LegacyChild(c) /\ isMessengerConsumer(c)))
                => /\ Len(BusHandlersOf(i)) = 1
                   /\ BusHandlersOf(i)[1].topic =
                        (IF c.name = "A" THEN "A:stateChange"
                                         ELSE "B:stateChange")
                   /\ Len(ListenersAt(i)) = 0
            /\ (LegacyChild(c) /\ ~isMessengerConsumer(c))
                => /\ Len(ListenersAt(i)) = 1
                   /\ Len(BusHandlersOf(i)) = 0
       /\ \A k \in 1..(Len(busSubscriptions) - 1) :
            busSubscriptions[k].child < busSubscriptions[k + 1].child
       /\ \A k \in 1..(Len(childListeners) - 1) :
            childListeners[k].child < childListeners[k + 1].child

\* A LegacyChild with a messaging handle next to one without.
C9_Witness ==
    /\ result = "constructed"
    /\ Len(controllers) = 2
    /\ LegacyChild(controllers[1]) /\ isMessengerConsumer(controllers[1])
    /\ LegacyChild(controllers[2]) /\ ~isMessengerConsumer(controllers[2])
    /\ Len(busSubscriptions) = 1 /\ busSubscriptions[1].child = 1
    /\ Len(childListeners) = 1 /\ childListeners[1].child = 2

(* C10: after a successful construction, and after any notifications,      *)
(* every ModernChild and every LegacyChild has exactly one handler, and    *)
(* there is no other registration.                                         *)
C10_OneHandlerPerChild ==
    result = "constructed"
    => /\ \A i \in Positions :
            Recognized(controllers[i])
                => Len(BusHandlersOf(i)) + Len(ListenersAt(i)) = 1
       /\ Len(busSubscriptions) + Len(childListeners) =
            Cardinality({i \in Positions : Recognized(controllers[i])})

\* Two controllers, each with its handler after two notifications.
C10_Witness ==
    /\ result = "constructed"
    /\ Len(controllers) = 2
    /\ \A i \in Positions : Recognized(controllers[i])
    /\ Len(busSubscriptions) + Len(childListeners) = 2
    /\ Len(Received) = 2

-----------------------------------------------------------------------------
(* Vocabulary of the properties on duplicate names and on the events. *)

\* The positions of the children named n, and of those with a state.
ChildrenNamed(n) == {i \in Positions : controllers[i].name = n}

StatefulNamed(n) == {i \in ChildrenNamed(n) : "state" \in controllers[i].props}

Last(S) == CHOOSE i \in S : \A j \in S : j <= i

\* The names that two or more children share.
SharedNames == {n \in Names : Cardinality(ChildrenNamed(n)) >= 2}

\* The composite state as the constructor built it.
Snapshot(n) == controllers[Last(StatefulNamed(n))].state

\* The composite state before the p-th event was published.
Before(p) == IF p = 1 THEN [n \in DOMAIN state |-> Snapshot(n)]
                      ELSE published[p - 1].state

(* C11, as stated: when children share a name, after construction the      *)
(* metadata entry of the name is that of the child supplied last, and so   *)
(* is the state entry of the name, if there is one.                        *)
C11_Original ==
    (result = "constructed" /\ notified = <<>>)
    => \A n \in SharedNames :
        LET last == controllers[Last(ChildrenNamed(n))] IN
        /\ n \in DOMAIN metadata
        /\ metadata[n] = (IF ModernChild(last) THEN last.metadata
                                               ELSE DefaultMetadata)
        /\ "state" \in last.props => n \in DOMAIN state
        /\ n \in DOMAIN state => state[n] = last.state

(* C11, amended: the metadata entry is that of the child supplied last;    *)
(* the state entry is that of the last child of the name that has a       *)
(* `state` property, and there is none when no child of the name has one.  *)
C11_LastWriteWins ==
    (result = "constructed" /\ notified = <<>>)
    => \A n \in SharedNames :
        LET last == controllers[Last(ChildrenNamed(n))] IN
        /\ n \in DOMAIN metadata
        /\ metadata[n] = (IF ModernChild(last) THEN last.metadata
                                               ELSE DefaultMetadata)
        /\ IF StatefulNamed(n) = {}
              THEN n \notin DOMAIN state
              ELSE n \in DOMAIN state /\ state[n] = Snapshot(n)

\* Two controllers of one name and of different states and metadata.
C11_Witness ==
    /\ result = "constructed" /\ notified = <<>>
    /\ Len(controllers) = 2
    /\ controllers[1].name = controllers[2].name
    /\ ModernChild(controllers[1]) /\ LegacyChild(controllers[2])
    /\ controllers[1].state # controllers[2].state
    /\ state = (controllers[2].name :> controllers[2].state)
    /\ metadata = (controllers[2].name :> DefaultMetadata)

(* C12: every event the controller publishes is on the topic               *)
(* "ComposableController:stateChange" and carries the whole composite      *)
(* state as it is right after the replacement that caused it: the slice    *)
(* of the notifying child holds the received state, every other slice is   *)
(* as before, and the last event carries this.state.                       *)
C12_AggregateEvent ==
    /\ \A p \in 1..Len(published) :
        LET e == published[p]
            n == notified[e.cause].name
        IN /\ e.topic = "ComposableController:stateChange"
           /\ DOMAIN e.state = DOMAIN Before(p)
           /\ e.state[n] = notified[e.cause].state
           /\ \A m \in DOMAIN e.state \ {n} : e.state[m] = Before(p)[m]
    /\ published # <<>> => published[Len(published)].state = state

\* An event caused by the child B carries the slice of A as well.
C12_Witness ==
    /\ Len(published) = 1
    /\ notified[published[1].cause].name = "B"
    /\ DOMAIN published[1].state = {"A", "B"}
    /\ published[1].state["B"] = [y |-> 2]
    /\ published[1].state["A"] = [x |-> 1]

(* C14: once constructed, no step adds or removes a key of the composite   *)
(* state or of the composite metadata, and the metadata keeps its values.  *)
C14_FixedChildren ==
    [][ result # "new"
        => /\ DOMAIN state' = DOMAIN state
           /\ metadata' = metadata ]_vars

\* Both slices have been replaced since construction.
C14_Witness ==
    /\ result = "constructed"
    /\ DOMAIN state = {"A", "B"}
    /\ DOMAIN metadata = {"A", "B"}
    /\ Len(Received) = 2
    /\ notified[1].name # notified[2].name

-----------------------------------------------------------------------------
(* Vocabulary of the properties on the handlers of a name. *)

\* The notifications for the name n that a handler received.
HandledFor(n) == {k \in 1..Len(notified) :
                    notified[k].name = n /\ notified[k].handlers >= 1}

\* The registrations whose handler writes the slice n.
HandlersNamed(n) ==
    Len(SelectSeq(busSubscriptions, LAMBDA h : h.name = n))
        + Len(SelectSeq(childListeners, LAMBDA h : h.name = n))

\* The children named n that are subscribed on the messenger.
OnBusNamed(n) ==
    {i \in ChildrenNamed(n) :
        \/ ModernChild(controllers[i])
        \/ (LegacyChild(controllers[i]) /\ isMessengerConsumer(controllers[i]))}

(* C17: after a successful construction and any notifications, each slice  *)
(* holds the state of the last notification handled for its name, or the   *)
(* state its child had at construction when none has been handled.         *)
C17_LatestState ==
    result = "constructed"
    => \A n \in DOMAIN state :
        state[n] = IF HandledFor(n) = {}
                     THEN Snapshot(n)
                     ELSE notified[Last(HandledFor(n))].state

\* The slice A was replaced twice, the slice B never.
C17_Witness ==
    /\ result = "constructed"
    /\ UniqueNames
    /\ DOMAIN state = {"A", "B"}
    /\ HandledFor("A") = {1, 2}
    /\ notified[1].state = [y |-> 2]
    /\ state["A"] = [x |-> 2, y |-> 1]
    /\ state["B"] = [x |-> 1]

(* C18: after a successful construction, every child that has a `state`    *)
(* property has a handler registered for it, so every slice of the         *)
(* composite state has a handler that replaces it.                         *)
C18_SliceHasHandler ==
    result = "constructed"
    => /\ \A i \in Positions :
            "state" \in controllers[i].props => i \in HandlerChildren
       /\ \A n \in DOMAIN state : HandlersNamed(n) >= 1

(* C19, as stated: when k children share the name n, k handlers write the  *)
(* slice n; a publication of "n:stateChange" runs the handlers of all the  *)
(* children of the name subscribed on the messenger and yields as many     *)
(* events, and the slice holds the state of the last notification.         *)
C19_Original ==
    result = "constructed"
    => \A n \in SharedNames :
        /\ HandlersNamed(n) = Cardinality(ChildrenNamed(n))
        /\ \A k \in 1..Len(notified) :
            (notified[k].name = n /\ notified[k].via = "messenger")
                => /\ notified[k].handlers = Cardinality(OnBusNamed(n))
                   /\ Cardinality(EventsOf(k)) = Cardinality(OnBusNamed(n))
        /\ HandledFor(n) # {}
            => state[n] = notified[Last(HandledFor(n))].state

(* C19, amended: the same, counting the ModernChildren and LegacyChildren  *)
(* of the name: a child of the name that is neither has no handler.  A     *)
(* notification that a LegacyChild sends to its listeners runs one handler *)
(* for each position the object was given at.                              *)
C19_SharedSlice ==
    result = "constructed"
    => \A n \in SharedNames :
        /\ HandlersNamed(n) =
            Cardinality({i \in ChildrenNamed(n) : Recognized(controllers[i])})
        /\ \A k \in 1..Len(notified) :
            (notified[k].name = n /\ notified[k].via = "messenger")
                => /\ notified[k].handlers = Cardinality(OnBusNamed(n))
                   /\ Cardinality(EventsOf(k)) = Cardinality(OnBusNamed(n))
        /\ \A k \in 1..Len(notified) :
            (notified[k].name = n /\ notified[k].via = "subscribe")
                => /\ notified[k].handlers =
                        Cardinality({i \in ChildrenNamed(n) :
                            /\ objects[i] = notified[k].child
                            /\ ListenersAt(i) # <<>>})
                   /\ Cardinality(EventsOf(k)) = notified[k].handlers
        /\ HandledFor(n) # {}
            => state[n] = notified[Last(HandledFor(n))].state

\* Two children named A on the messenger: one publication, two events, and
\* the slice no longer holds the state of the child supplied last.
C19_Witness ==
    /\ result = "constructed"
    /\ Len(controllers) = 2
    /\ OnBusNamed("A") = {1, 2}
    /\ Len(notified) = 1
    /\ notified[1].name = "A"
    /\ Len(published) = 2
    /\ state["A"] = [y |-> 2]
    /\ state["A"] # controllers[2].state


-----------------------------------------------------------------------------
(* Nesting.                                                                *)

\* The events this controller has published since the second one was built.
PublishedSinceOuter == Len(published) - outer.since

\* C13: this controller can be given as a child to a second
\* ComposableController on the same messenger; then every dispatch
\* terminates, the second controller
\* publishes exactly one event for each event this controller publishes,
\* and afterwards its slice for this controller equals this controller's
\* state.
C13_Nesting ==
    outer.result # "new" =>
        /\ outer.result = "constructed"
        /\ ~overflow
        /\ Len(outer.published) = PublishedSinceOuter
        /\ PublishedSinceOuter > 0 =>
                outer.state[controllerName] = state


-----------------------------------------------------------------------------
(* The writers of the composite state.                                     *)

\* The notification nt is one that a handler of this controller is
\* registered for: its topic was subscribed to on the messenger, or a
\* listener was given to the child that sends it.
HasHandler(nt) ==
    \/ /\ nt.via = "messenger"
       /\ \E k \in 1..Len(busSubscriptions) :
            busSubscriptions[k].topic = StateChangeTopic(nt.name)
    \/ /\ nt.via = "subscribe"
       /\ \E k \in 1..Len(childListeners) : childListeners[k].child = nt.child

\* The notifications of the step from the current state to the next.
NewNotifications == (Len(notified) + 1)..Len(notified')

\* C15: once constructed, a step changes a slice of the composite state
\* only if it carries a notification of that name for which a handler is
\* registered; a child that changes its state without notifying, a
\* publication on a topic that was not subscribed to, and the handing of the
\* event to its subscribers leave the state as the last handler wrote it.
C15_WrittenOnlyByHandler ==
    [][result # "new" =>
        /\ DOMAIN state' = DOMAIN state
        /\ \A n \in DOMAIN state :
            state'[n] # state[n] =>
                \E k \in NewNotifications :
                    /\ HasHandler(notified'[k])
                    /\ notified'[k].name = n
        /\ unannounced' # unannounced => state' = state
        /\ Len(published') > Len(published) =>
                state' = published'[Len(published')].state
        /\ Len(published') = Len(published) => state' = state]_vars

\* The three other steps have happened and the state has been kept: a child
\* has changed its state quietly, a publication found no handler, and an
\* event was handed to a subscriber.
C15_Witness ==
    /\ \E i \in 1..Len(unannounced) :
        /\ unannounced[i] # undefined
        /\ unannounced[i] # state[controllers[i].name]
    /\ \E k \in 1..Len(notified) : ~HasHandler(notified[k])
    /\ delivered # <<>>
    /\ state = published[Len(published)].state


-----------------------------------------------------------------------------
(* What a subscriber of the event reads from the controller.               *)

Deliveries == 1..Len(delivered)

\* The subscribers that make a child send a notification when they are
\* handed an event.
Triggers ==
    {j \in 1..Len(subscribers) :
        subscribers[j].kind \in {"publisher", "notifier"}}

\* No handler subscribed to the event makes a child call its listeners.
NoNotifier ==
    \A j \in 1..Len(subscribers) : subscribers[j].kind # "notifier"

====
